---- MODULE Spec2Model ----
(***************************************************************************)
(* A model of the PWA lifecycle layer of vite-vanilla-tailwind:            *)
(*   public/sw.js                  the worker-side cache controller        *)
(*   src/js/serviceWorkerManager.js the registration / update observer     *)
(*   PWAManager (unnamed/part_000)  the page-side lifecycle coordinator    *)
(* The worker and the page run in two separate event loops; each handler   *)
(* below is one action, and a handler that suspends at an asynchronous     *)
(* operation is split at the suspension points.                            *)
(***************************************************************************)
EXTENDS Integers, Sequences, FiniteSets, TLC

VARIABLES
  \* ---- environment of the worker
  network,        \* TRUE when a network fetch resolves, FALSE when it rejects
  serverVer,      \* the version of the content the server currently serves
  oldClients,     \* TRUE while pages controlled by a previous worker are open
  \* ---- sw.js
  preCacheURLs,   \* the precache manifest (sw.js:25-28)
  cacheStorage,   \* CacheStorage: sequence of [name, entries] in creation order
  swState,        \* lifecycle state of this worker
  skipWaitingFlag,\* the worker's skip-waiting flag, set by self.skipWaiting()
  keyList,        \* the caches.keys() snapshot of the activate handler
  deleting,       \* caches.delete(key) calls of the activate handler in flight
  fetches,        \* the fetch interceptions, by slot
  pendingPuts,    \* cache.put calls started by the fetch handler, not yet run
  lastMsg,        \* data of the last message event handled
  swErrors,       \* uncaught errors (rejections) raised inside the worker
  \* ---- history
  installResp,    \* what install stored for each URL of the manifest
  installFailing  \* the URLs whose precache fetch failed during install

workerVars == <<network, serverVer, oldClients, preCacheURLs, cacheStorage,
                swState, skipWaitingFlag, keyList, deleting, fetches,
                pendingPuts, lastMsg, swErrors, installResp,
                installFailing>>

hist == <<installResp, installFailing>>

VARIABLES
  \* ---- environment of the page
  hasSW,          \* 'serviceWorker' in navigator
  controlled,     \* navigator.serviceWorker.controller is not null
  workers,        \* state of each worker of the registration, by id
  loaded,         \* the window's load event has been dispatched
  reloaded,       \* window.location.reload() was called: the session is over
  lastSignal,     \* the type of the last lifecycle signal dispatched
  promptCount,    \* number of install-availability events handled
  promptCalls,    \* number of prompt() calls on each of them
  \* ---- PWAManager
  pmState,        \* "none", "constructed", or "failed" (the constructor threw)
  ctorArgs,       \* the installButton / updateButton options given
  ctorError,      \* the message of the error the constructor threw
  installButton,  \* this.installButton
  updateButton,   \* this.updateButton
  deferredPrompt, \* this.deferredPrompt: 0 is null, else the event's id
  refreshing,     \* this.refreshing
  initDone,       \* init() was called
  listeners,      \* the event listeners PWAManager has registered
  awaiting,       \* events whose userChoice an install click handler awaits
  calls,          \* number of invocations of each host callback
  uncaught,       \* uncaught errors and unhandled rejections of the page
  \* ---- ServiceWorkerManager
  regState,       \* the promise returned by register()
  sw,             \* this.sw
  newSw,          \* this.newSw: 0 is null, else the worker's id
  observed,       \* workers that carry a statechange listener
  posted,         \* number of skipWaiting messages posted to each worker
  notifications,  \* the events dispatched on window by the manager
  consoleErrors   \* what the manager reported through console.error

envVars == <<hasSW, controlled, workers, loaded, reloaded, lastSignal,
             promptCount, promptCalls>>
pmVars == <<pmState, ctorArgs, ctorError, installButton, updateButton,
            deferredPrompt, refreshing, initDone, listeners, awaiting, calls,
            uncaught>>
swmVars == <<regState, sw, newSw, observed, posted, notifications,
             consoleErrors>>
pageVars == <<envVars, pmVars, swmVars>>

vars == <<workerVars, pageVars>>

----------------------------------------------------------------------------
(* Bounds *)
MaxFetches == 2
MaxWorkers == 2
MaxPrompts == 2
MaxCalls == 2

----------------------------------------------------------------------------
(* sw.js constants *)
cacheName == "v0.0.0"
cacheKeepList == <<cacheName>>
defaultResponseURL == "/offline.html"
otherURL == "./"
oldCacheName == "v-old"

URLs == {defaultResponseURL, otherURL}
Methods == {"GET", "POST"}
Requests == {[url |-> defaultResponseURL, method |-> "GET"],
             [url |-> otherURL, method |-> "GET"],
             [url |-> otherURL, method |-> "POST"]}

\* The content the server serves changes from deployment to deployment:
\* version 0 is what previous deployments served, Versions what the server
\* serves while this worker lives.
Versions == {1, 2}

\* A response is the content served for a URL at some server version.
Undefined == [url |-> "undefined", ver |-> 0]
Response(u, v) == [url |-> u, ver |-> v]
NoEntries == [u \in URLs |-> Undefined]
OldEntries == [u \in URLs |-> Response(u, 0)]

\* The manifests the worker is deployed with: the one of the source, and the
\* one with the commented-out entry of sw.js:27 enabled.
PreCacheManifests == {<<defaultResponseURL>>, <<defaultResponseURL, otherURL>>}

\* The cache stores found when the worker is first run.
InitialStorages ==
  { <<>>,
    <<[name |-> oldCacheName, entries |-> OldEntries]>>,
    <<[name |-> oldCacheName, entries |-> OldEntries],
      [name |-> cacheName, entries |-> OldEntries]>> }

Range(s) == {s[i] : i \in 1..Len(s)}

----------------------------------------------------------------------------
(* The CacheStorage / Cache API as sw.js uses it *)

CachesKeys(cs) == [i \in 1..Len(cs) |-> cs[i].name]

CachesHas(cs, name) == \E i \in 1..Len(cs) : cs[i].name = name

\* caches.open(name): creates the store when it does not exist.
CachesOpen(cs, name) ==
  IF CachesHas(cs, name) THEN cs
  ELSE Append(cs, [name |-> name, entries |-> NoEntries])

\* caches.delete(name)
CachesDelete(cs, name) == SelectSeq(cs, LAMBDA c : c.name # name)

\* cache.match(request): only GET requests match.
CacheMatch(entries, req) ==
  IF req.method = "GET" THEN entries[req.url] ELSE Undefined

\* caches.match(request): the first store, in creation order, that matches.
CachesMatch(cs, req) ==
  LET hits == {i \in 1..Len(cs) : CacheMatch(cs[i].entries, req) # Undefined}
  IN IF hits = {} THEN Undefined
     ELSE CacheMatch(cs[CHOOSE i \in hits : \A j \in hits : i <= j].entries, req)

\* The entries of the store `name`, which exists.
StoreEntries(cs, name) ==
  cs[CHOOSE i \in 1..Len(cs) : cs[i].name = name].entries

\* cache.put(request, response) on the store `name`, which exists.
CachePutEntry(cs, name, url, resp) ==
  [i \in 1..Len(cs) |->
     IF cs[i].name = name
     THEN [cs[i] EXCEPT !.entries = [@ EXCEPT ![url] = resp]]
     ELSE cs[i]]

\* cache.addAll(urls) once every fetch has resolved with an ok response.
RECURSIVE CacheAddAll(_, _, _, _)
CacheAddAll(cs, name, urls, ver) ==
  IF urls = <<>> THEN cs
  ELSE CacheAddAll(CachePutEntry(cs, name, Head(urls), Response(Head(urls), ver)),
                   name, Tail(urls), ver)

----------------------------------------------------------------------------
(* sw.js: state *)

NoRequest == [url |-> "none", method |-> "none"]
IdleFetch == [pc |-> "idle", req |-> NoRequest, resp |-> Undefined,
              kind |-> "none", net |-> "none", after |-> {}]
Slots == 1..MaxFetches

\* event.data of a message event: an object with an action tag.
MessageData == {[action |-> "skipWaiting"], [action |-> "reload"]}
NoMessage == [action |-> "none"]

----------------------------------------------------------------------------
(* Environment of the worker *)

NetworkDown ==
  /\ network
  /\ network' = FALSE
  /\ UNCHANGED <<serverVer, oldClients, preCacheURLs, cacheStorage, swState,
                 skipWaitingFlag, keyList, deleting, fetches, pendingPuts,
                 lastMsg, swErrors, hist, pageVars>>

NetworkUp ==
  /\ ~network
  /\ network' = TRUE
  /\ UNCHANGED <<serverVer, oldClients, preCacheURLs, cacheStorage, swState,
                 skipWaitingFlag, keyList, deleting, fetches, pendingPuts,
                 lastMsg, swErrors, hist, pageVars>>

\* The deploying party changes the content the server serves.
ServerDeploy ==
  /\ serverVer' \in Versions \ {serverVer}
  /\ UNCHANGED <<network, oldClients, preCacheURLs, cacheStorage, swState,
                 skipWaitingFlag, keyList, deleting, fetches, pendingPuts,
                 lastMsg, swErrors, hist, pageVars>>

\* The pages controlled by the previous worker are closed.
ClientsClose ==
  /\ oldClients
  /\ swState \in {"parsed", "installing", "installed"}
  /\ oldClients' = FALSE
  /\ UNCHANGED <<network, serverVer, preCacheURLs, cacheStorage, swState,
                 skipWaitingFlag, keyList, deleting, fetches, pendingPuts,
                 lastMsg, swErrors, hist, pageVars>>

----------------------------------------------------------------------------
(* sw.js:5-9, the message listener *)

\* Mutant: the test of the action tag is missing.
IsSkipWaitingAnyAction(data) == TRUE

\* event.data.action === 'skipWaiting'
IsSkipWaiting(data) == data.action = "skipWaiting"

OnMessage(data) ==
  /\ swState \in {"installing", "installed", "activating", "activated"}
  /\ lastMsg' = data
  /\ skipWaitingFlag' = (skipWaitingFlag \/ IsSkipWaiting(data))
  /\ UNCHANGED <<network, serverVer, oldClients, preCacheURLs, cacheStorage,
                 swState, keyList, deleting, fetches, pendingPuts, swErrors,
                 hist, pageVars>>

----------------------------------------------------------------------------
(* sw.js:32-39, the install listener *)

\* The install event is dispatched; the handler opens the store of cacheName.
InstallStart ==
  /\ swState = "parsed"
  /\ swState' = "installing"
  /\ cacheStorage' = CachesOpen(cacheStorage, cacheName)
  /\ UNCHANGED <<network, serverVer, oldClients, preCacheURLs, skipWaitingFlag,
                 keyList, deleting, fetches, pendingPuts, lastMsg,
                 swErrors, hist, pageVars>>

\* Mutant: a best-effort precache that stores what it could fetch.
AddAllBestEffort(cs, urls, failing, ver) ==
  [ok |-> TRUE,
   cs |-> CacheAddAll(cs, cacheName, SelectSeq(urls, LAMBDA u : u \notin failing), ver)]

\* cache.addAll(urls): all or nothing. `failing` are the URLs whose fetch
\* rejected or resolved with a response that is not ok.
AddAllResult(cs, urls, failing, ver) ==
  IF failing = {}
  THEN [ok |-> TRUE, cs |-> CacheAddAll(cs, cacheName, urls, ver)]
  ELSE [ok |-> FALSE, cs |-> cs]

\* The promise given to event.waitUntil settles: the worker becomes
\* installed when it resolved and redundant when it rejected.
InstallAddAll(failing) ==
  /\ swState = "installing"
  /\ failing \subseteq Range(preCacheURLs)
  /\ ~network => failing = Range(preCacheURLs)
  /\ LET r == AddAllResult(cacheStorage, preCacheURLs, failing, serverVer)
     IN /\ cacheStorage' = r.cs
        /\ swState' = IF r.ok THEN "installed" ELSE "redundant"
        /\ installResp' =
             [u \in URLs |->
                IF r.ok /\ u \in Range(preCacheURLs)
                THEN StoreEntries(r.cs, cacheName)[u]
                ELSE Undefined]
        /\ installFailing' = failing
  /\ UNCHANGED <<network, serverVer, oldClients, preCacheURLs, skipWaitingFlag,
                 keyList, deleting, fetches, pendingPuts, lastMsg,
                 swErrors, pageVars>>

----------------------------------------------------------------------------
(* sw.js:43-55, the activate listener *)

IndexOf(seq, x) ==
  IF \E i \in 1..Len(seq) : seq[i] = x
  THEN (CHOOSE i \in 1..Len(seq) : seq[i] = x /\ \A j \in 1..(i-1) : seq[j] # x) - 1
  ELSE -1

\* Mutant: the test of the keep list inverted.
ShouldDeleteInverted(key) == IndexOf(cacheKeepList, key) # -1

\* cacheKeepList.indexOf(key) === -1
ShouldDelete(key) == IndexOf(cacheKeepList, key) = -1

\* A waiting worker is activated once no page is controlled by the previous
\* worker, or at once when its skip-waiting flag is set.
ActivateStart ==
  /\ swState = "installed"
  /\ skipWaitingFlag \/ ~oldClients
  /\ swState' = "activating"
  /\ keyList' = CachesKeys(cacheStorage)
  /\ deleting' = {k \in Range(CachesKeys(cacheStorage)) : ShouldDelete(k)}
  /\ UNCHANGED <<network, serverVer, oldClients, preCacheURLs, cacheStorage,
                 skipWaitingFlag, fetches, pendingPuts, lastMsg,
                 swErrors, hist, pageVars>>

\* One caches.delete(key) of the Promise.all completes.
DeleteCache(k) ==
  /\ swState = "activating"
  /\ k \in deleting
  /\ cacheStorage' = CachesDelete(cacheStorage, k)
  /\ deleting' = deleting \ {k}
  /\ UNCHANGED <<network, serverVer, oldClients, preCacheURLs, swState,
                 skipWaitingFlag, keyList, fetches, pendingPuts, lastMsg, swErrors, hist, pageVars>>

\* Mutant: the eviction is not given to event.waitUntil, the worker is
\* activated while caches.delete calls are in flight.
ActivateDoneWithoutWaiting ==
  /\ swState = "activating"
  /\ swState' = "activated"
  /\ oldClients' = FALSE
  /\ UNCHANGED <<network, serverVer, preCacheURLs, cacheStorage,
                 skipWaitingFlag, keyList, deleting, fetches, pendingPuts,
                 lastMsg, swErrors, hist, pageVars>>

\* The promise given to event.waitUntil resolves: the worker is activated,
\* and the pages of the previous worker are its clients now.
ActivateDone ==
  /\ swState = "activating"
  /\ deleting = {}
  /\ swState' = "activated"
  /\ oldClients' = FALSE
  /\ UNCHANGED <<network, serverVer, preCacheURLs, cacheStorage,
                 skipWaitingFlag, keyList, deleting, fetches, pendingPuts,
                 lastMsg, swErrors, hist, pageVars>>

----------------------------------------------------------------------------
(* sw.js:59-73, the fetch listener *)

\* A fetch event is dispatched to the activated worker; the handler calls
\* caches.match(event.request).
FetchEvent(i, req) ==
  /\ swState = "activated"
  /\ fetches[i].pc = "idle"
  /\ \A j \in Slots : j < i => fetches[j].pc # "idle"
  /\ fetches' = [fetches EXCEPT ![i] =
       [IdleFetch EXCEPT !.pc = "match", !.req = req,
                         !.after = {j \in Slots : fetches[j].pc = "done"}]]
  /\ UNCHANGED <<network, serverVer, oldClients, preCacheURLs, cacheStorage,
                 swState, skipWaitingFlag, keyList, deleting, pendingPuts,
                 lastMsg, swErrors, hist, pageVars>>

\* Mutant: network-first, the cache is not consulted.
FetchMatchNetworkFirst(i) ==
  /\ fetches[i].pc = "match"
  /\ fetches' = [fetches EXCEPT ![i] = [@ EXCEPT !.pc = "network"]]
  /\ UNCHANGED <<network, serverVer, oldClients, preCacheURLs, cacheStorage,
                 swState, skipWaitingFlag, keyList, deleting, pendingPuts,
                 lastMsg, swErrors, hist, pageVars>>

\* Mutant: stale-while-revalidate, a hit is returned and refreshed from the
\* network.
FetchMatchRevalidates(i) ==
  /\ fetches[i].pc = "match"
  /\ LET resp == CachesMatch(cacheStorage, fetches[i].req)
         response == Response(fetches[i].req.url, serverVer)
     IN /\ fetches' = [fetches EXCEPT ![i] =
             IF resp # Undefined
             THEN [@ EXCEPT !.pc = "done", !.resp = resp, !.kind = "cache",
                            !.net = IF network THEN "ok" ELSE "failed"]
             ELSE [@ EXCEPT !.pc = "network"]]
        /\ pendingPuts' = IF resp # Undefined /\ network
                          THEN pendingPuts \cup
                                 {[req |-> fetches[i].req, resp |-> response]}
                          ELSE pendingPuts
  /\ UNCHANGED <<network, serverVer, oldClients, preCacheURLs, cacheStorage,
                 swState, skipWaitingFlag, keyList, deleting,
                 lastMsg, swErrors, hist, pageVars>>

\* resp || fetch(event.request)
FetchMatch(i) ==
  /\ fetches[i].pc = "match"
  /\ LET resp == CachesMatch(cacheStorage, fetches[i].req)
     IN fetches' = [fetches EXCEPT ![i] =
          IF resp # Undefined
          THEN [@ EXCEPT !.pc = "done", !.resp = resp, !.kind = "cache"]
          ELSE [@ EXCEPT !.pc = "network"]]
  /\ UNCHANGED <<network, serverVer, oldClients, preCacheURLs, cacheStorage,
                 swState, skipWaitingFlag, keyList, deleting, pendingPuts,
                 lastMsg, swErrors, hist, pageVars>>

\* Mutant: the promise chain has no catch handler, a failed network request
\* fails the interception.
FetchNetworkWithoutCatch(i) ==
  /\ fetches[i].pc = "network"
  /\ IF network
     THEN LET response == Response(fetches[i].req.url, serverVer)
          IN /\ pendingPuts' = pendingPuts \cup
                                 {[req |-> fetches[i].req, resp |-> response]}
             /\ fetches' = [fetches EXCEPT ![i] =
                  [@ EXCEPT !.pc = "done", !.resp = response,
                            !.kind = "network", !.net = "ok"]]
     ELSE /\ fetches' = [fetches EXCEPT ![i] =
                  [@ EXCEPT !.pc = "done", !.kind = "failed", !.net = "failed"]]
          /\ UNCHANGED pendingPuts
  /\ UNCHANGED <<network, serverVer, oldClients, preCacheURLs, cacheStorage,
                 swState, skipWaitingFlag, keyList, deleting, lastMsg, swErrors, hist, pageVars>>

\* fetch(event.request) settles. Resolved: the clone is handed to an
\* un-awaited caches.open(cacheName).then(cache.put) and the response is
\* returned. Rejected: the catch handler runs.
FetchNetwork(i) ==
  /\ fetches[i].pc = "network"
  /\ IF network
     THEN LET response == Response(fetches[i].req.url, serverVer)
          IN /\ pendingPuts' = pendingPuts \cup
                                 {[req |-> fetches[i].req, resp |-> response]}
             /\ fetches' = [fetches EXCEPT ![i] =
                  [@ EXCEPT !.pc = "done", !.resp = response,
                            !.kind = "network", !.net = "ok"]]
     ELSE /\ fetches' = [fetches EXCEPT ![i] =
                  [@ EXCEPT !.pc = "fallback", !.net = "failed"]]
          /\ UNCHANGED pendingPuts
  /\ UNCHANGED <<network, serverVer, oldClients, preCacheURLs, cacheStorage,
                 swState, skipWaitingFlag, keyList, deleting, lastMsg, swErrors, hist, pageVars>>

\* Mutant: the catch handler looks up the failed request, not the fallback.
FetchFallbackOfRequest(i) ==
  /\ fetches[i].pc = "fallback"
  /\ LET resp == CachesMatch(cacheStorage, fetches[i].req)
     IN fetches' = [fetches EXCEPT ![i] =
          IF resp # Undefined
          THEN [@ EXCEPT !.pc = "done", !.resp = resp, !.kind = "fallback"]
          ELSE [@ EXCEPT !.pc = "done", !.kind = "failed"]]
  /\ UNCHANGED <<network, serverVer, oldClients, preCacheURLs, cacheStorage,
                 swState, skipWaitingFlag, keyList, deleting, pendingPuts,
                 lastMsg, swErrors, hist, pageVars>>

\* Mutant: the catch handler stores the fallback it serves under the failed
\* request.
FetchFallbackCachesResult(i) ==
  /\ fetches[i].pc = "fallback"
  /\ LET resp == CachesMatch(cacheStorage,
                             [url |-> defaultResponseURL, method |-> "GET"])
     IN /\ fetches' = [fetches EXCEPT ![i] =
             IF resp # Undefined
             THEN [@ EXCEPT !.pc = "done", !.resp = resp, !.kind = "fallback"]
             ELSE [@ EXCEPT !.pc = "done", !.kind = "failed"]]
        /\ pendingPuts' = IF resp # Undefined
                          THEN pendingPuts \cup
                                 {[req |-> fetches[i].req, resp |-> resp]}
                          ELSE pendingPuts
  /\ UNCHANGED <<network, serverVer, oldClients, preCacheURLs, cacheStorage,
                 swState, skipWaitingFlag, keyList, deleting,
                 lastMsg, swErrors, hist, pageVars>>

\* return caches.match(defaultResponseURL); respondWith(undefined) is a
\* failed fetch for the caller.
FetchFallback(i) ==
  /\ fetches[i].pc = "fallback"
  /\ LET resp == CachesMatch(cacheStorage,
                             [url |-> defaultResponseURL, method |-> "GET"])
     IN fetches' = [fetches EXCEPT ![i] =
          IF resp # Undefined
          THEN [@ EXCEPT !.pc = "done", !.resp = resp, !.kind = "fallback"]
          ELSE [@ EXCEPT !.pc = "done", !.kind = "failed"]]
  /\ UNCHANGED <<network, serverVer, oldClients, preCacheURLs, cacheStorage,
                 swState, skipWaitingFlag, keyList, deleting, pendingPuts,
                 lastMsg, swErrors, hist, pageVars>>

\* caches.open(cacheName).then(cache => cache.put(event.request, clone)):
\* put rejects for a request whose method is not GET.
CachePut(p) ==
  /\ p \in pendingPuts
  /\ pendingPuts' = pendingPuts \ {p}
  /\ IF p.req.method = "GET"
     THEN /\ cacheStorage' = CachePutEntry(CachesOpen(cacheStorage, cacheName),
                                           cacheName, p.req.url, p.resp)
          /\ UNCHANGED swErrors
     ELSE /\ cacheStorage' = CachesOpen(cacheStorage, cacheName)
          /\ swErrors' = swErrors \cup {"TypeError: put"}
  /\ UNCHANGED <<network, serverVer, oldClients, preCacheURLs, swState,
                 skipWaitingFlag, keyList, deleting, fetches, lastMsg, hist, pageVars>>

----------------------------------------------------------------------------
NextWorker ==
  \/ NetworkDown
  \/ NetworkUp
  \/ ServerDeploy
  \/ ClientsClose
  \/ \E data \in MessageData : OnMessage(data)
  \/ InstallStart
  \/ \E failing \in SUBSET URLs : InstallAddAll(failing)
  \/ ActivateStart
  \/ \E k \in {oldCacheName, cacheName} : DeleteCache(k)
  \/ ActivateDone
  \/ \E i \in Slots, req \in Requests : FetchEvent(i, req)
  \/ \E i \in Slots : FetchMatch(i)
  \/ \E i \in Slots : FetchNetwork(i)
  \/ \E i \in Slots : FetchFallback(i)
  \/ \E p \in pendingPuts : CachePut(p)

\* The user agent clears the cache storage of the origin (site data cleared,
\* storage pressure): what caches.match of sw.js:61,69 then finds is nothing.
StorageCleared ==
  /\ swState = "activated"
  /\ cacheStorage # <<>>
  /\ cacheStorage' = <<>>
  /\ UNCHANGED <<network, serverVer, oldClients, preCacheURLs, swState,
                 skipWaitingFlag, keyList, deleting, fetches, pendingPuts,
                 lastMsg, swErrors, hist, pageVars>>

\* The worker from install to its fetch interceptions, with a user agent
\* that may clear the storage; server content and messages left aside.
NextWorkerLive ==
  \/ NetworkDown
  \/ NetworkUp
  \/ InstallStart
  \/ \E failing \in SUBSET URLs : InstallAddAll(failing)
  \/ ActivateStart
  \/ \E k \in {oldCacheName, cacheName} : DeleteCache(k)
  \/ ActivateDone
  \/ \E i \in Slots, req \in Requests : FetchEvent(i, req)
  \/ \E i \in Slots : FetchMatch(i)
  \/ \E i \in Slots : FetchNetwork(i)
  \/ \E i \in Slots : FetchFallback(i)
  \/ \E p \in pendingPuts : CachePut(p)
  \/ StorageCleared

----------------------------------------------------------------------------
(* The page: constants of PWAManager and ServiceWorkerManager *)

\* The event types the source registers its listeners under
\* (part_000:65,66,84,91; serviceWorkerManager.js:28,30,35) ...
LoadType == "load"
BeforeInstallPromptType == "beforeInstallPrompt"
AppInstalledType == "appInstalled"
ControllerChangeType == "controllerChange"
UpdateFoundType == "updatefound"
\* ... and the types the browser dispatches its signals under. Event types
\* are compared case-sensitively.
BrowserBeforeInstallPrompt == "beforeinstallprompt"
BrowserAppInstalled == "appinstalled"
BrowserControllerChange == "controllerchange"

InstallButtonError == "installButton must be an HTMLElement"
UpdateButtonError == "updateButton must be an HTMLElement"
NoSupportError == "ServiceWorker is not supported in this browser"
\* What a throwing host callback leaves uncaught.
HostCallbackError == "Error thrown by a host callback"
\* The reason register() rejects with (serviceWorkerManager.js:46-48).
RegistrationError == "register() rejected"

\* Values a host may pass as installButton / updateButton.
ButtonValues == {"null", "element", "string"}
IsHTMLElement(b) == b = "element"
NoArgs == [installButton |-> "null", updateButton |-> "null"]

Callbacks == {"beforeInstallPrompt", "appInstalled", "controllerChange"}
WorkerIds == 1..MaxWorkers
PromptIds == 1..MaxPrompts

Listener(target, type) == [target |-> target, type |-> type]

\* The page before PWAManager is constructed.
PageStart ==
  /\ workers = [w \in WorkerIds |-> "none"]
  /\ loaded = FALSE
  /\ reloaded = FALSE
  /\ lastSignal = "none"
  /\ promptCount = 0
  /\ promptCalls = [e \in PromptIds |-> 0]
  /\ pmState = "none"
  /\ ctorArgs = NoArgs
  /\ ctorError = ""
  /\ installButton = "null"
  /\ updateButton = "null"
  /\ deferredPrompt = 0
  /\ refreshing = FALSE
  /\ initDone = FALSE
  /\ listeners = {}
  /\ awaiting = {}
  /\ calls = [c \in Callbacks |-> 0]
  /\ uncaught = {}
  /\ regState = "none"
  /\ sw = "null"
  /\ newSw = 0
  /\ observed = {}
  /\ posted = [w \in WorkerIds |-> 0]
  /\ notifications = <<>>
  /\ consoleErrors = {}

\* The worker script before its install event.
WorkerStart ==
  /\ serverVer = 1
  /\ swState = "parsed"
  /\ skipWaitingFlag = FALSE
  /\ keyList = <<>>
  /\ deleting = {}
  /\ fetches = [i \in Slots |-> IdleFetch]
  /\ pendingPuts = {}
  /\ lastMsg = NoMessage
  /\ swErrors = {}
  /\ installResp = NoEntries
  /\ installFailing = {}

\* The worker in each environment and deployment, beside an idle page.
InitWorker ==
  /\ WorkerStart
  /\ PageStart
  /\ hasSW = TRUE
  /\ controlled = FALSE
  /\ network \in BOOLEAN
  /\ oldClients \in BOOLEAN
  /\ preCacheURLs \in PreCacheManifests
  /\ cacheStorage \in InitialStorages

\* The worker as the source deploys it, installed over a network that is up.
InitWorkerLive ==
  /\ WorkerStart
  /\ PageStart
  /\ hasSW = TRUE
  /\ controlled = FALSE
  /\ network = TRUE
  /\ oldClients = FALSE
  /\ preCacheURLs = <<defaultResponseURL>>
  /\ cacheStorage \in {<<>>, <<[name |-> oldCacheName, entries |-> OldEntries]>>}

\* The page in each environment, beside an idle worker.
InitPage ==
  /\ WorkerStart
  /\ PageStart
  /\ network = TRUE
  /\ oldClients = FALSE
  /\ preCacheURLs = <<defaultResponseURL>>
  /\ cacheStorage = <<>>
  /\ hasSW \in BOOLEAN
  /\ controlled \in BOOLEAN
  /\ controlled => hasSW

----------------------------------------------------------------------------
(* PWAManager.constructor, part_000:30-59 *)

\* Mutant: the updateButton option is not validated.
ConstructorSkipsUpdateButton(args, supported) ==
  IF args.installButton # "null" /\ ~IsHTMLElement(args.installButton)
  THEN InstallButtonError
  ELSE IF ~supported THEN NoSupportError
  ELSE ""

\* Mutant: the capability check of part_000:56-58 is missing.
ConstructorSkipsSupportCheck(args, supported) ==
  IF args.installButton # "null" /\ ~IsHTMLElement(args.installButton)
  THEN InstallButtonError
  ELSE IF args.updateButton # "null" /\ ~IsHTMLElement(args.updateButton)
  THEN UpdateButtonError
  ELSE ""

\* The message of the error the constructor throws, "" when it returns.
ConstructorThrows(args, supported) ==
  IF args.installButton # "null" /\ ~IsHTMLElement(args.installButton)
  THEN InstallButtonError
  ELSE IF args.updateButton # "null" /\ ~IsHTMLElement(args.updateButton)
  THEN UpdateButtonError
  ELSE IF ~supported THEN NoSupportError
  ELSE ""

Construct(args) ==
  /\ pmState = "none"
  /\ ctorArgs' = args
  /\ LET err == ConstructorThrows(args, hasSW)
     IN /\ ctorError' = err
        /\ pmState' = IF err = "" THEN "constructed" ELSE "failed"
        /\ installButton' = IF err = "" THEN args.installButton ELSE "null"
        /\ updateButton' = IF err = "" THEN args.updateButton ELSE "null"
  /\ deferredPrompt' = 0
  /\ refreshing' = FALSE
  /\ UNCHANGED workerVars
  /\ UNCHANGED <<envVars, swmVars, initDone, listeners, awaiting, calls,
                 uncaught>>

----------------------------------------------------------------------------
(* PWAManager.init, part_000:61-105, with ServiceWorkerManager.init,
   serviceWorkerManager.js:21-26 *)

\* ServiceWorkerManager.init calls register() when the capability is there.
SwManagerRegisters(supported) == supported

PMInit ==
  /\ pmState = "constructed"
  /\ ~initDone
  /\ ~reloaded
  /\ initDone' = TRUE
  /\ IF hasSW
     THEN /\ regState' = IF SwManagerRegisters(hasSW) THEN "pending" ELSE "none"
          /\ listeners' = listeners \cup
               {Listener("window", LoadType),
                Listener("navigator.serviceWorker", ControllerChangeType),
                Listener("window", UpdateFoundType)}
          /\ UNCHANGED uncaught
     ELSE /\ uncaught' = uncaught \cup {NoSupportError}
          /\ UNCHANGED <<regState, listeners>>
  /\ UNCHANGED workerVars
  /\ UNCHANGED <<envVars, pmState, ctorArgs, ctorError, installButton,
                 updateButton, deferredPrompt, refreshing, awaiting, calls,
                 sw, newSw, observed, posted, notifications, consoleErrors>>

\* The window's load event, and the load listener of part_000:65-89 when it
\* is registered. `global` says what the bare identifier updateButton of
\* part_000:80 resolves to: nothing ("undeclared", a ReferenceError) or the
\* element itself ("element", a named property of the window).
WindowLoad(global) ==
  /\ ~loaded
  /\ ~reloaded
  /\ loaded' = TRUE
  /\ IF Listener("window", LoadType) \in listeners
     THEN LET first == {Listener("window", BeforeInstallPromptType)} \cup
                       (IF installButton # "null"
                        THEN {Listener("installButton", "click")} ELSE {})
          IN IF updateButton # "null" /\ global = "undeclared"
             THEN /\ listeners' = listeners \cup first
                  /\ uncaught' = uncaught \cup
                       {"ReferenceError: updateButton is not defined"}
             ELSE /\ listeners' = listeners \cup first \cup
                       (IF updateButton # "null"
                        THEN {Listener("updateButton", "click")} ELSE {}) \cup
                       {Listener("window", AppInstalledType)}
                  /\ UNCHANGED uncaught
     ELSE UNCHANGED <<listeners, uncaught>>
  /\ UNCHANGED workerVars
  /\ UNCHANGED <<hasSW, controlled, workers, reloaded, lastSignal, promptCount,
                 promptCalls, pmState, ctorArgs, ctorError, installButton,
                 updateButton, deferredPrompt, refreshing, initDone, awaiting,
                 calls, swmVars>>

\* An install-availability signal of the given type is dispatched on the
\* window; the listener of part_000:66-71 runs when it is registered under
\* that type. `throws`: the host callback throws.
BeforeInstallPromptSignal(type, throws) ==
  /\ ~reloaded
  /\ lastSignal' = type
  /\ IF Listener("window", type) \in listeners /\ type = BeforeInstallPromptType
     THEN /\ promptCount < MaxPrompts
          /\ promptCount' = promptCount + 1
          /\ deferredPrompt' = promptCount + 1
          /\ calls' = [calls EXCEPT !["beforeInstallPrompt"] = @ + 1]
          /\ uncaught' = IF throws
                         THEN uncaught \cup {HostCallbackError}
                         ELSE uncaught
     ELSE UNCHANGED <<promptCount, deferredPrompt, calls, uncaught>>
  /\ UNCHANGED workerVars
  /\ UNCHANGED <<hasSW, controlled, workers, loaded, reloaded, promptCalls,
                 pmState, ctorArgs, ctorError, installButton, updateButton,
                 refreshing, initDone, listeners, awaiting, swmVars>>

\* A click on the install button: the async listener of part_000:73-78 up to
\* its await. prompt() on an event it was already called on rejects.
InstallClick ==
  /\ ~reloaded
  /\ Listener("installButton", "click") \in listeners
  /\ IF deferredPrompt = 0
     THEN /\ uncaught' = uncaught \cup
               {"TypeError: Cannot read properties of null (reading 'prompt')"}
          /\ UNCHANGED <<promptCalls, awaiting>>
     ELSE /\ promptCalls[deferredPrompt] < MaxCalls
          /\ promptCalls' = [promptCalls EXCEPT ![deferredPrompt] = @ + 1]
          /\ uncaught' = IF promptCalls[deferredPrompt] >= 1
                         THEN uncaught \cup {"InvalidStateError: prompt"}
                         ELSE uncaught
          /\ awaiting' = awaiting \cup {deferredPrompt}
  /\ UNCHANGED workerVars
  /\ UNCHANGED <<hasSW, controlled, workers, loaded, reloaded, lastSignal,
                 promptCount, pmState, ctorArgs, ctorError, installButton,
                 updateButton, deferredPrompt, refreshing, initDone, listeners,
                 calls, swmVars>>

\* The user answers the prompt of event e: the listeners awaiting its
\* userChoice resume (part_000:75-77).
UserChoice(e) ==
  /\ ~reloaded
  /\ e \in awaiting
  /\ awaiting' = awaiting \ {e}
  /\ deferredPrompt' = 0
  /\ UNCHANGED workerVars
  /\ UNCHANGED <<envVars, swmVars, pmState, ctorArgs, ctorError, installButton,
                 updateButton, refreshing, initDone, listeners, calls, uncaught>>

\* A click on the update button (part_000:80-82).
UpdateClick ==
  /\ ~reloaded
  /\ Listener("updateButton", "click") \in listeners
  /\ reloaded' = TRUE
  /\ UNCHANGED workerVars
  /\ UNCHANGED <<hasSW, controlled, workers, loaded, lastSignal, promptCount,
                 promptCalls, pmVars, swmVars>>

\* An app-installed signal of the given type; the listener of part_000:84-88.
AppInstalledSignal(type, throws) ==
  /\ ~reloaded
  /\ lastSignal' = type
  /\ IF Listener("window", type) \in listeners /\ type = AppInstalledType
     THEN /\ calls["appInstalled"] < MaxCalls
          /\ calls' = [calls EXCEPT !["appInstalled"] = @ + 1]
          /\ IF throws
             THEN /\ uncaught' = uncaught \cup {HostCallbackError}
                  /\ UNCHANGED deferredPrompt
             ELSE /\ deferredPrompt' = 0
                  /\ UNCHANGED uncaught
     ELSE UNCHANGED <<deferredPrompt, calls, uncaught>>
  /\ UNCHANGED workerVars
  /\ UNCHANGED <<hasSW, controlled, workers, loaded, reloaded, promptCount,
                 promptCalls, pmState, ctorArgs, ctorError, installButton,
                 updateButton, refreshing, initDone, listeners, awaiting,
                 swmVars>>

\* A controller-change signal of the given type on navigator.serviceWorker;
\* the listener of part_000:91-95.
ControllerChangeSignal(type, throws) ==
  /\ ~reloaded
  /\ lastSignal' = type
  /\ IF /\ Listener("navigator.serviceWorker", type) \in listeners
        /\ type = ControllerChangeType
        /\ ~refreshing
     THEN /\ calls["controllerChange"] < MaxCalls
          /\ calls' = [calls EXCEPT !["controllerChange"] = @ + 1]
          /\ IF throws
             THEN /\ uncaught' = uncaught \cup {HostCallbackError}
                  /\ UNCHANGED refreshing
             ELSE /\ refreshing' = TRUE
                  /\ UNCHANGED uncaught
     ELSE UNCHANGED <<refreshing, calls, uncaught>>
  /\ UNCHANGED workerVars
  /\ UNCHANGED <<hasSW, controlled, workers, loaded, reloaded, promptCount,
                 promptCalls, pmState, ctorArgs, ctorError, installButton,
                 updateButton, deferredPrompt, initDone, listeners, awaiting,
                 swmVars>>

----------------------------------------------------------------------------
(* ServiceWorkerManager.init, serviceWorkerManager.js:23-49 *)

\* register() resolved: the then-callback of lines 26-45.
RegisterResolve ==
  /\ ~reloaded
  /\ regState = "pending"
  /\ regState' = "resolved"
  /\ sw' = "registration"
  /\ UNCHANGED workerVars
  /\ UNCHANGED <<envVars, pmVars, newSw, observed, posted, notifications,
                 consoleErrors>>

\* Mutant: the promise chain has no catch-callback, the rejection is
\* unhandled.
RegisterRejectUnhandled ==
  /\ ~reloaded
  /\ regState = "pending"
  /\ regState' = "rejected"
  /\ uncaught' = uncaught \cup {RegistrationError}
  /\ UNCHANGED workerVars
  /\ UNCHANGED <<envVars, pmState, ctorArgs, ctorError, installButton,
                 updateButton, deferredPrompt, refreshing, initDone, listeners,
                 awaiting, calls, sw, newSw, observed, posted, notifications,
                 consoleErrors>>

\* register() rejected: the catch-callback of lines 46-49 logs the error.
RegisterReject ==
  /\ ~reloaded
  /\ regState = "pending"
  /\ regState' = "rejected"
  /\ consoleErrors' = consoleErrors \cup {RegistrationError}
  /\ UNCHANGED workerVars
  /\ UNCHANGED <<envVars, pmVars, sw, newSw, observed, posted, notifications>>

\* The registration found an update: reg.installing is a new worker, and
\* the updatefound listener of lines 28-43 tracks and observes it.
UpdateFound(w) ==
  /\ ~reloaded
  /\ regState = "resolved"
  /\ workers[w] = "none"
  /\ \A v \in WorkerIds : v < w => workers[v] # "none"
  /\ \A v \in WorkerIds : workers[v] # "installing"
  /\ workers' = [workers EXCEPT ![w] = "installing"]
  /\ newSw' = w
  /\ observed' = observed \cup {w}
  /\ UNCHANGED workerVars
  /\ UNCHANGED <<hasSW, controlled, loaded, reloaded, lastSignal, promptCount,
                 promptCalls, pmVars, regState, sw, posted, notifications,
                 consoleErrors>>

\* new CustomEvent(type, init): of the members of init only detail is kept.
NoDetail == [currentWorker |-> "null", newWorker |-> 0]
CustomEvent(type, init) ==
  [type |-> type,
   detail |-> IF "detail" \in DOMAIN init THEN init.detail ELSE NoDetail]

\* The lifecycle of a worker as the browser drives it. One worker installs
\* at a time; the waiting worker is made redundant before its successor
\* becomes installed, the active one before its successor is activating.
WorkerTransitions ==
  {<<"installing", "installed">>, <<"installing", "redundant">>,
   <<"installed", "activating">>, <<"installed", "redundant">>,
   <<"activating", "activated">>, <<"activated", "redundant">>}

CanBecome(w, to) ==
  /\ <<workers[w], to>> \in WorkerTransitions
  /\ to = "installed" => \A v \in WorkerIds : workers[v] # "installed"
  /\ to = "activating" =>
       \A v \in WorkerIds : workers[v] \notin {"activating", "activated"}

\* The state of worker w changes and its statechange event is dispatched:
\* the listener of lines 30-42, attached when w was found, reads the state
\* of this.newSw.
WorkerStateChange(w, to) ==
  /\ ~reloaded
  /\ CanBecome(w, to)
  /\ workers' = [workers EXCEPT ![w] = to]
  /\ IF w \in observed /\ workers'[newSw] = "installed" /\ controlled
     THEN /\ posted' = [posted EXCEPT ![newSw] = @ + 1]
          /\ notifications' = Append(notifications,
               CustomEvent(UpdateFoundType,
                           [currentWorker |-> sw, newWorker |-> newSw]))
     ELSE UNCHANGED <<posted, notifications>>
  /\ UNCHANGED workerVars
  /\ UNCHANGED <<hasSW, controlled, loaded, reloaded, lastSignal, promptCount,
                 promptCalls, pmVars, regState, sw, newSw, observed,
                 consoleErrors>>

----------------------------------------------------------------------------
\* PWAManager: construction, init and the page-side listeners.
NextPwa ==
  \/ \E args \in [installButton : ButtonValues, updateButton : ButtonValues] :
       Construct(args)
  \/ PMInit
  \/ \E global \in {"undeclared", "element"} : WindowLoad(global)
  \/ \E type \in {BrowserBeforeInstallPrompt, BeforeInstallPromptType},
        throws \in BOOLEAN : BeforeInstallPromptSignal(type, throws)
  \/ InstallClick
  \/ \E e \in PromptIds : UserChoice(e)
  \/ UpdateClick
  \/ \E type \in {BrowserAppInstalled, AppInstalledType},
        throws \in BOOLEAN : AppInstalledSignal(type, throws)
  \/ \E type \in {BrowserControllerChange, ControllerChangeType},
        throws \in BOOLEAN : ControllerChangeSignal(type, throws)

\* ServiceWorkerManager as PWAManager.init starts it, with the workers of
\* its registration and the load event of the window.
NextSwm ==
  \/ \E args \in [installButton : ButtonValues, updateButton : ButtonValues] :
       Construct(args)
  \/ PMInit
  \/ \E global \in {"undeclared", "element"} : WindowLoad(global)
  \/ RegisterResolve
  \/ RegisterReject
  \/ \E w \in WorkerIds : UpdateFound(w)
  \/ \E w \in WorkerIds, to \in {"installed", "activating", "activated", "redundant"} :
       WorkerStateChange(w, to)

SpecWorker == InitWorker /\ [][NextWorker]_vars
SpecPwa == InitPage /\ [][NextPwa]_vars
SpecSwm == InitPage /\ [][NextSwm]_vars

\* The worker with a user agent that may clear the storage; every promise
\* of a fetch interception is eventually settled and its callback run.
FetchFairness ==
  \A i \in Slots : /\ WF_vars(FetchMatch(i))
                   /\ WF_vars(FetchNetwork(i))
                   /\ WF_vars(FetchFallback(i))
SpecWorkerLive == InitWorkerLive /\ [][NextWorkerLive]_vars /\ FetchFairness

----------------------------------------------------------------------------
(* Properties of the worker-side cache controller *)

Get(u) == [url |-> u, method |-> "GET"]
Done(i) == fetches[i].pc = "done"

\* C1: every finished interception of a (GET) request for a URL of the
\* precache manifest resolved to the response install fetched and stored for
\* that URL, from the cache; in particular when the network is disabled and
\* whatever the server serves by then.
C1_PrecachedServedFromInstall ==
  \A i \in Slots :
    (Done(i) /\ fetches[i].req.method = "GET"
             /\ fetches[i].req.url \in Range(preCacheURLs))
    => /\ installResp[fetches[i].req.url] # Undefined
       /\ fetches[i].kind = "cache"
       /\ fetches[i].resp = installResp[fetches[i].req.url]

\* A precached URL other than the fallback was served with the network
\* disabled after the server's content had changed since install.
C1_Witness ==
  \E i \in Slots :
    /\ Done(i)
    /\ fetches[i].req = Get(otherURL)
    /\ otherURL \in Range(preCacheURLs)
    /\ ~network
    /\ fetches[i].resp.ver # serverVer

\* C2: once the activate phase has completed, every cache store that existed
\* when it started and is not in cacheKeepList is gone, every one that is in
\* cacheKeepList is still there, and no store outside cacheKeepList exists;
\* in particular the store of the previous generation is gone.
C2_ActivateEvictsStale ==
  swState = "activated" =>
    /\ \A k \in Range(keyList) :
         /\ k \notin Range(cacheKeepList) => ~CachesHas(cacheStorage, k)
         /\ k \in Range(cacheKeepList) => CachesHas(cacheStorage, k)
    /\ Range(CachesKeys(cacheStorage)) \subseteq Range(cacheKeepList)

\* Activation completed from a storage holding both the previous and the
\* current generation.
C2_Witness ==
  /\ swState = "activated"
  /\ oldCacheName \in Range(keyList)
  /\ cacheName \in Range(keyList)
  /\ ~CachesHas(cacheStorage, oldCacheName)

\* C3 (as claimed): when an interception of a GET request was answered from
\* the network, a later interception of the same request that got nothing
\* from the network is answered from the cache with that same response.
C3_SecondServedFromCache ==
  \A i, j \in Slots :
    (/\ Done(i) /\ fetches[i].kind = "network"
     /\ fetches[i].req.method = "GET"
     /\ Done(j) /\ i \in fetches[j].after
     /\ fetches[j].req = fetches[i].req
     /\ fetches[j].kind # "network")
    => /\ fetches[j].kind = "cache"
       /\ fetches[j].resp = fetches[i].resp

\* C4: an interception whose lookup missed and whose network request failed
\* resolved to the response install stored under defaultResponseURL.
C4_OfflineFallbackServed ==
  \A i \in Slots :
    (Done(i) /\ fetches[i].net = "failed")
    => /\ fetches[i].kind = "fallback"
       /\ installResp[defaultResponseURL] # Undefined
       /\ fetches[i].resp = installResp[defaultResponseURL]

\* A request for a resource that is not cached was answered by the fallback.
C4_Witness ==
  \E i \in Slots :
    /\ Done(i)
    /\ fetches[i].net = "failed"
    /\ fetches[i].req.url = otherURL
    /\ fetches[i].resp.url = defaultResponseURL

\* C8: when the fetch of some URL of the manifest failed during install, the
\* worker is redundant: it is never installed, activating or activated, and
\* it has handled no fetch event.
C8_PrecacheFailureFailsInstall ==
  installFailing # {} =>
    /\ swState = "redundant"
    /\ \A i \in Slots : fetches[i] = IdleFetch

\* Exactly one URL of a two-URL manifest failed while the network was up.
C8_Witness ==
  /\ installFailing = {otherURL}
  /\ Len(preCacheURLs) = 2
  /\ swState = "redundant"

\* C10: a message step sets the skip-waiting flag exactly when its action
\* tag is 'skipWaiting' and otherwise changes nothing of the worker; and a
\* waiting worker whose flag is set can be activated although pages of the
\* previous worker are still open.
C10_SkipWaitingOnMessage ==
  /\ [][lastMsg' # lastMsg =>
          IF lastMsg'.action = "skipWaiting"
          THEN skipWaitingFlag'
          ELSE UNCHANGED <<skipWaitingFlag, swState, cacheStorage, keyList,
                           deleting, fetches, pendingPuts, preCacheURLs>>]_vars
  /\ [](swState = "installed" /\ skipWaitingFlag => ENABLED ActivateStart)

\* The worker is being activated after a skipWaiting message while pages of
\* the previous worker are open.
C10_Witness ==
  /\ swState = "activating"
  /\ oldClients
  /\ skipWaitingFlag
  /\ lastMsg.action = "skipWaiting"

\* C15: the worker is activating or activated only after the precache of
\* install completed (every URL of the manifest stored, none failed); while
\* the eviction of activate is in progress, and before, no fetch event has
\* been handled and no cache write of the fetch handler is pending; a fetch
\* event is handled only by the activated worker, after every stale store
\* was deleted, also when activation was forced by the skipWaiting message.
C15_PhaseOrdering ==
  /\ swState \in {"activating", "activated"} =>
       /\ installFailing = {}
       /\ \A u \in Range(preCacheURLs) : installResp[u] # Undefined
  /\ (swState # "activated" \/ deleting # {}) =>
       /\ \A i \in Slots : fetches[i] = IdleFetch
       /\ pendingPuts = {}
  /\ (\E i \in Slots : fetches[i] # IdleFetch) =>
       /\ swState = "activated"
       /\ deleting = {}
       /\ \A k \in Range(keyList) :
            ShouldDelete(k) => ~CachesHas(cacheStorage, k)

\* A fetch event was handled by a worker activated through skipWaiting whose
\* activate phase had a stale store to delete.
C15_Witness ==
  /\ \E i \in Slots : fetches[i].pc # "idle"
  /\ skipWaitingFlag
  /\ lastMsg.action = "skipWaiting"
  /\ oldCacheName \in Range(keyList)

\* C16: the step of an interception whose request has an entry in the cache
\* completes it with that entry, makes no network request, starts no cache
\* write and leaves the cache as it is, with the network up or down; a
\* completed interception takes no further step, and one answered from the
\* cache never made a network request.
C16_CacheHitTouchesNothing ==
  /\ [][\A i \in Slots :
          (/\ fetches[i].pc = "match"
           /\ fetches'[i] # fetches[i]
           /\ CachesMatch(cacheStorage, fetches[i].req) # Undefined)
          => /\ fetches'[i].pc = "done"
             /\ fetches'[i].kind = "cache"
             /\ fetches'[i].resp = CachesMatch(cacheStorage, fetches[i].req)
             /\ fetches'[i].net = "none"
             /\ pendingPuts' = pendingPuts
             /\ cacheStorage' = cacheStorage]_vars
  /\ [][\A i \in Slots : Done(i) => fetches'[i] = fetches[i]]_vars
  /\ [](\A i \in Slots : fetches[i].kind = "cache" => fetches[i].net = "none")

\* A cached entry older than what the server serves was returned while the
\* network was up, and no cache write is pending.
C16_Witness ==
  \E i \in Slots :
    /\ Done(i)
    /\ fetches[i].kind = "cache"
    /\ network
    /\ fetches[i].resp.ver # serverVer
    /\ pendingPuts = {}

\* The stage of an interception: every step moves it to a later one.
Stage(f) ==
  CASE f.pc = "idle" -> 0
    [] f.pc = "match" -> 1
    [] f.pc = "network" -> 2
    [] f.pc = "fallback" -> 3
    [] f.pc = "done" -> 4

\* C17: every interception that was started is eventually completed, each
\* of its steps moving it to a later stage; a completed one resolved to
\* exactly one of a cached response, a network response, the offline
\* fallback or a failure without a response; and an interception fails
\* only in the step where its lookup had missed, its network request had
\* failed and defaultResponseURL is not in the cache.
C17_InterceptionResolves ==
  /\ \A i \in Slots : (fetches[i].pc # "idle") ~> Done(i)
  /\ [][\A i \in Slots :
          fetches'[i] # fetches[i] => Stage(fetches'[i]) > Stage(fetches[i])]_vars
  /\ [](\A i \in Slots : Done(i) =>
          \/ /\ fetches[i].kind = "cache"
             /\ fetches[i].net = "none"
             /\ fetches[i].resp # Undefined
          \/ /\ fetches[i].kind = "network"
             /\ fetches[i].net = "ok"
             /\ fetches[i].resp.url = fetches[i].req.url
          \/ /\ fetches[i].kind = "fallback"
             /\ fetches[i].net = "failed"
             /\ fetches[i].resp.url = defaultResponseURL
          \/ /\ fetches[i].kind = "failed"
             /\ fetches[i].net = "failed"
             /\ fetches[i].resp = Undefined)
  /\ [][\A i \in Slots :
          (fetches'[i].kind = "failed" /\ fetches[i].kind # "failed")
          => /\ fetches[i].pc = "fallback"
             /\ fetches[i].net = "failed"
             /\ CachesMatch(cacheStorage, Get(defaultResponseURL)) = Undefined]_vars

\* An interception failed: the storage was cleared, the request missed, the
\* network was down and the fallback was gone; another one was answered by
\* the network.
C17_Witness ==
  /\ \E i \in Slots : Done(i) /\ fetches[i].kind = "failed"
  /\ \E i \in Slots : Done(i) /\ fetches[i].kind = "network"

\* C20: the steps of an interception whose network request failed (the
\* rejection, and the fallback being served) write nothing to the cache and
\* start no cache write; no store ever holds, under a URL, the content of
\* another URL; so a later interception of the same request that is not
\* itself a fallback returns the content of the requested URL, and returns
\* it from the network when no other interception had fetched it before.
C20_FallbackLeavesCacheUnchanged ==
  /\ [][\A i \in Slots :
          (fetches'[i] # fetches[i] /\ fetches'[i].net = "failed")
          => /\ cacheStorage' = cacheStorage
             /\ pendingPuts' = pendingPuts]_vars
  /\ [](\A k \in 1..Len(cacheStorage) : \A u \in URLs :
          cacheStorage[k].entries[u] # Undefined
          => cacheStorage[k].entries[u].url = u)
  /\ [](\A i, j \in Slots :
          (/\ Done(i) /\ fetches[i].kind = "fallback"
           /\ Done(j) /\ i \in fetches[j].after
           /\ fetches[j].req = fetches[i].req
           /\ fetches[j].kind # "fallback")
          => /\ fetches[j].kind \in {"network", "cache"}
             /\ fetches[j].resp.url = fetches[j].req.url
             /\ (\A k \in Slots \ {j} :
                   ~(fetches[k].req = fetches[j].req /\ fetches[k].net = "ok"))
                => /\ fetches[j].kind = "network"
                   /\ fetches[j].net = "ok")

\* A request answered by the fallback was, with the network restored,
\* answered by the network.
C20_Witness ==
  \E i, j \in Slots :
    /\ Done(i) /\ fetches[i].kind = "fallback"
    /\ Done(j) /\ i \in fetches[j].after
    /\ fetches[j].req = fetches[i].req
    /\ fetches[j].kind = "network"
    /\ fetches[j].resp.url = otherURL

----------------------------------------------------------------------------
(* Properties of the page-side lifecycle coordinator *)

\* C5 (as claimed): the host's controllerChange callback is invoked at most
\* once in a page session, over any sequence of controller-change signals.
C5_ControllerChangeAtMostOnce == calls["controllerChange"] <= 1

\* C6: when the installButton or updateButton option is neither null nor an
\* HTMLElement the constructor throws the error naming that option, and no
\* worker registration and no event listener has been registered.
C6_InvalidButtonFailsConstruction ==
  LET badInstall == ctorArgs.installButton \notin {"null", "element"}
      badUpdate == ctorArgs.updateButton \notin {"null", "element"}
  IN (badInstall \/ badUpdate) =>
       /\ pmState = "failed"
       /\ ctorError = IF badInstall THEN InstallButtonError ELSE UpdateButtonError
       /\ ~initDone
       /\ listeners = {}
       /\ regState = "none"
       /\ sw = "null"

\* Construction failed on the updateButton option alone, in a browser that
\* supports service workers.
C6_Witness ==
  /\ pmState = "failed"
  /\ hasSW
  /\ ctorArgs.installButton = "element"
  /\ ctorArgs.updateButton = "string"
  /\ ctorError = UpdateButtonError

\* C7 (as claimed): no click on the install button raises an uncaught
\* error, also when the deferred prompt is empty (cleared by an earlier
\* attempt, or never set).
C7_InstallClickNeverCrashes ==
  uncaught \cap {"TypeError: Cannot read properties of null (reading 'prompt')",
                 "InvalidStateError: prompt"} = {}

\* C9 (as claimed): a found worker that is installed while a controller
\* governs the page has been sent the skipWaiting message, and an
\* update-available notification carrying references to the current and to
\* the new worker has been raised; without a controller no message is sent
\* and no notification raised.
C9_UpdateHandshake ==
  /\ \A w \in WorkerIds :
       (controlled /\ w \in observed /\ workers[w] = "installed") =>
         /\ posted[w] >= 1
         /\ \E k \in 1..Len(notifications) :
              /\ notifications[k].type = UpdateFoundType
              /\ notifications[k].detail.currentWorker # "null"
              /\ notifications[k].detail.newWorker = w
  /\ ~controlled =>
       /\ \A w \in WorkerIds : posted[w] = 0
       /\ notifications = <<>>

\* C11 (as claimed): once init has registered the listeners, each lifecycle
\* signal the browser dispatches (beforeinstallprompt, appinstalled,
\* controllerchange) reaches its host callback: the install-availability
\* event is stored as the deferred prompt and beforeInstallPrompt is invoked,
\* appInstalled is invoked, and the first controller change invokes
\* controllerChange.
C11_SignalsReachCallbacks ==
  [][/\ (/\ Listener("window", BeforeInstallPromptType) \in listeners
         /\ promptCount < MaxPrompts
         /\ lastSignal' # lastSignal
         /\ \E throws \in BOOLEAN :
              BeforeInstallPromptSignal(BrowserBeforeInstallPrompt, throws))
        => /\ calls'["beforeInstallPrompt"] = calls["beforeInstallPrompt"] + 1
           /\ deferredPrompt' = promptCount'
           /\ promptCount' = promptCount + 1
     /\ (/\ Listener("window", AppInstalledType) \in listeners
         /\ lastSignal' # lastSignal
         /\ \E throws \in BOOLEAN :
              AppInstalledSignal(BrowserAppInstalled, throws))
        => calls'["appInstalled"] = calls["appInstalled"] + 1
     /\ (/\ Listener("navigator.serviceWorker", ControllerChangeType) \in listeners
         /\ ~refreshing
         /\ lastSignal' # lastSignal
         /\ \E throws \in BOOLEAN :
              ControllerChangeSignal(BrowserControllerChange, throws))
        => calls'["controllerChange"] = calls["controllerChange"] + 1]_vars

\* C12: when register() has rejected, the error was reported through
\* console.error and is not an uncaught error of the page; init completed,
\* this.sw is null, no worker is tracked or observed and no update-found
\* signal of a registration can be handled; the listeners init registered
\* are registered, and no later step removes a listener.
C12_RegistrationFailureNonFatal ==
  /\ [](regState = "rejected" =>
          /\ RegistrationError \in consoleErrors
          /\ RegistrationError \notin uncaught
          /\ NoSupportError \notin uncaught
          /\ initDone
          /\ pmState = "constructed"
          /\ sw = "null"
          /\ newSw = 0
          /\ observed = {}
          /\ ~ENABLED (\E w \in WorkerIds : UpdateFound(w))
          /\ {Listener("window", LoadType),
              Listener("navigator.serviceWorker", ControllerChangeType),
              Listener("window", UpdateFoundType)} \subseteq listeners)
  /\ [][regState' = "rejected" => listeners \subseteq listeners']_vars

\* register() rejected and the load handler registered its listeners.
C12_Witness ==
  /\ regState = "rejected"
  /\ loaded
  /\ Listener("window", BeforeInstallPromptType) \in listeners
  /\ Listener("window", AppInstalledType) \in listeners

\* C13: in an environment without 'serviceWorker' in navigator every
\* construction has failed, whatever the installButton and updateButton
\* options are: the constructor threw one of its errors, the one about the
\* missing capability when both options are valid; the coordinator was not
\* initialized, and registered no listener and no worker.
C13_NoSupportFailsConstruction ==
  (~hasSW /\ pmState # "none") =>
    /\ pmState = "failed"
    /\ ctorError \in {InstallButtonError, UpdateButtonError, NoSupportError}
    /\ (/\ ctorArgs.installButton \in {"null", "element"}
        /\ ctorArgs.updateButton \in {"null", "element"})
       => ctorError = NoSupportError
    /\ ~initDone
    /\ listeners = {}
    /\ regState = "none"
    /\ uncaught = {}

\* Construction with two valid elements failed for want of the capability.
C13_Witness ==
  /\ ~hasSW
  /\ pmState = "failed"
  /\ ctorArgs = [installButton |-> "element", updateButton |-> "element"]
  /\ ctorError = NoSupportError
  /\ loaded

\* C14 (as claimed): when an updateButton element was supplied and the load
\* handler of init has run, a click on the element reloads the page: the
\* click listener is bound, so the reloading click step is enabled.
C14_UpdateClickReloads ==
  (/\ updateButton = "element"
   /\ Listener("window", BeforeInstallPromptType) \in listeners
   /\ ~reloaded)
  => /\ Listener("updateButton", "click") \in listeners
     /\ ENABLED UpdateClick

\* C18 (as claimed): the deferred prompt is empty until an install-
\* availability event was handled and is then one of the events handled;
\* only the handler of that signal stores an event in it; it is empty after
\* the step that receives the user's choice and after the step that handles
\* an app-installed signal; and prompt() is called at most once on each
\* captured event.
C18_DeferredPromptOneShot ==
  /\ [](deferredPrompt \in 0..promptCount)
  /\ [][deferredPrompt' \notin {0, deferredPrompt}
          => /\ promptCount' = promptCount + 1
             /\ deferredPrompt' = promptCount'
             /\ lastSignal' = BeforeInstallPromptType]_vars
  /\ [][awaiting' # awaiting /\ awaiting' \subseteq awaiting
          => deferredPrompt' = 0]_vars
  /\ [][(\E throws \in BOOLEAN : AppInstalledSignal(AppInstalledType, throws))
        /\ calls'["appInstalled"] # calls["appInstalled"]
          => deferredPrompt' = 0]_vars
  /\ [](\A e \in PromptIds : promptCalls[e] <= 1)

\* C19 (as claimed): each found worker is sent at most one skipWaiting
\* message and is the subject of at most one notification, and a message is
\* posted to a worker only in the step in which that worker's own state
\* becomes 'installed'; over every sequence of update-found signals and
\* state changes.
C19_OneHandshakePerWorker ==
  /\ [](\A w \in WorkerIds : posted[w] <= 1)
  /\ [](Len(notifications) <= Cardinality({w \in WorkerIds : posted[w] > 0}))
  /\ [][\A w \in WorkerIds :
          posted'[w] # posted[w]
          => /\ workers[w] # "installed"
             /\ workers'[w] = "installed"]_vars

====
